---- MODULE Spec2Model ----
(***************************************************************************)
(* Model of the RFID gate controller of src/main.cpp: the polling loop,    *)
(* the card transaction readWriteCard (authenticate, write, read, halt),   *)
(* the decision of cardInteraction and the status page handleRoot.         *)
(*                                                                         *)
(* The MFRC522 driver is an external library: each of its calls is a step  *)
(* whose status code is chosen by the environment.  A card is a UID and    *)
(* the 16 bytes of its balance block (BUDGET_BLOCK).                       *)
(***************************************************************************)
EXTENDS Integers, Sequences, FiniteSets, TLC

VARIABLES count, buffer, status, cards, cryptoOn, page, pc, tap, scenario,
          faults

vars == <<count, buffer, status, cards, cryptoOn, page, pc, tap, scenario,
          faults>>

---------------------------------------------------------------------------
(* Program constants *)

ENTRY_COST == 10

FIRST_BALANCE == 100

BlockSize == 16

IntSize == 4

(* Bounds of the model *)

\* number of leading failure-free taps of the authorized card that are counted
MaxScenario == 12

\* number of Card Link failures and corrupted writes injected in one run
MaxFaults == 1

\* how many values around each byte boundary of an int the balance record
\* is encoded and decoded for
CodecSpan == 20

\* balance that lands on the card when a write is silently corrupted
CorruptBalance == 25

---------------------------------------------------------------------------
(* Fixed-width integers and the balance record *)

RECURSIVE LeBytes(_, _)
\* the n low-order bytes of the non-negative number u, least significant first
LeBytes(u, n) ==
    IF n = 0 THEN <<>> ELSE <<u % 256>> \o LeBytes(u \div 256, n - 1)

\* the bytes of v stored most significant first
IntBytes_BigEndian(v) ==
    IF v >= 0 THEN [i \in 1..IntSize |-> LeBytes(v, IntSize)[IntSize + 1 - i]]
    ELSE [i \in 1..IntSize |->
             255 - LeBytes(-(v + 1), IntSize)[IntSize + 1 - i]]

\* object representation of the int v on the little-endian ESP32 (two's
\* complement: the bytes of a negative v are the inverted bytes of -v - 1)
IntBytes(v) ==
    IF v >= 0 THEN LeBytes(v, IntSize)
    ELSE [i \in 1..IntSize |-> 255 - LeBytes(-(v + 1), IntSize)[i]]

\* the int whose object representation is the 4 bytes b
BytesInt(b) ==
    IF b[4] < 128
    THEN b[1] + 256 * b[2] + 65536 * b[3] + 16777216 * b[4]
    ELSE -((255 - b[1]) + 256 * (255 - b[2]) + 65536 * (255 - b[3])
           + 16777216 * (255 - b[4])) - 1

\* memcpy(buffer, &count, sizeof(count)): overwrite the first 4 bytes of buf
encodeBalance(buf, v) ==
    [i \in 1..Len(buf) |-> IF i <= IntSize THEN IntBytes(v)[i] ELSE buf[i]]

\* memcpy(&count, buffer, sizeof(count)): the int held by the first 4 bytes
decodeBalance(buf) == BytesInt(SubSeq(buf, 1, IntSize))

\* a 16-byte block holding balance v and padding byte p in bytes [4..15]
Block(v, p) == encodeBalance([i \in 1..BlockSize |-> p], v)

---------------------------------------------------------------------------
(* Card identifiers *)

HexDigits == <<"0", "1", "2", "3", "4", "5", "6", "7",
               "8", "9", "a", "b", "c", "d", "e", "f">>

\* String(b, HEX): hexadecimal digits of a byte without leading zero
StringHEX(b) ==
    IF b < 16 THEN <<HexDigits[b + 1]>>
    ELSE <<HexDigits[(b \div 16) + 1], HexDigits[(b % 16) + 1]>>

RECURSIVE uidString(_)
\* the loop of cardInteraction that appends String(uidByte[i], HEX) to uid
uidString(bytes) ==
    IF bytes = <<>> THEN <<>>
    ELSE StringHEX(Head(bytes)) \o uidString(Tail(bytes))

\* the cards that can be presented to the reader
Cards == {1, 2, 3}

\* mfrc522.uid.uidByte of each card
uidByte(c) ==
    CASE c = 1 -> <<1, 35, 69, 103>>
      [] c = 2 -> <<18, 52, 86, 7>>
      [] c = 3 -> <<17, 34, 51, 68>>

\* the configured identifier: the operator enters the UID of card 1
myUID == <<"1", "2", "3", "4", "5", "6", "7">>

\* balance block of each card before its first tap
InitBlock(c) ==
    CASE c = 1 -> Block(FIRST_BALANCE, 0)
      [] c = 2 -> Block(0, 0)
      [] c = 3 -> Block(30, 238)

---------------------------------------------------------------------------
(* Decision of cardInteraction *)

cardInteractionBranch_NoBalanceCheck(uid, cnt) ==
    IF uid = myUID THEN "Authorized" ELSE "DeniedUnknownIdentifier"

cardInteractionBranch_ZeroPasses(uid, cnt) ==
    IF uid = myUID /\ cnt >= 0 THEN "Authorized"
    ELSE IF uid = myUID /\ cnt < 0 THEN "DeniedInsufficientBalance"
    ELSE "DeniedUnknownIdentifier"

\* the branch taken by the if / else if / else of cardInteraction
cardInteractionBranch(uid, cnt) ==
    IF uid = myUID /\ cnt > 0 THEN "Authorized"
    ELSE IF uid = myUID /\ cnt <= 0 THEN "DeniedInsufficientBalance"
    ELSE "DeniedUnknownIdentifier"

RECURSIVE DecDigits(_)
DecDigits(n) ==
    IF n < 10 THEN <<HexDigits[n + 1]>>
    ELSE DecDigits(n \div 10) \o <<HexDigits[(n % 10) + 1]>>

\* String(count): decimal text of an int
StringDEC(v) == IF v < 0 THEN <<"-">> \o DecDigits(-v) ELSE DecDigits(v)

---------------------------------------------------------------------------
(* Record of the tap in progress (or of the last tap, between taps) *)

NoTap ==
    [card |-> 0, uid |-> <<>>, count0 |-> 0, block0 |-> <<>>,
     steps |-> <<>>, failed |-> "none", written |-> <<>>, readback |-> <<>>,
     halts |-> 0, balance |-> 0, outcome |-> "none"]

Init ==
    /\ count = FIRST_BALANCE
    /\ buffer = [i \in 1..BlockSize |-> 0]
    /\ status = "STATUS_OK"
    /\ cards = [c \in Cards |-> InitBlock(c)]
    /\ cryptoOn = FALSE
    /\ page = <<>>
    /\ pc = "loop"
    /\ tap = NoTap
    /\ scenario = 0
    /\ faults = 0

---------------------------------------------------------------------------
(* Card Link: the status codes a driver call can return *)

StatusCodes ==
    IF faults < MaxFaults THEN {"STATUS_OK", "STATUS_ERROR"} ELSE {"STATUS_OK"}

\* whether a write acknowledged by the card stored the bytes that were sent
WriteSticks == IF faults < MaxFaults THEN BOOLEAN ELSE {TRUE}

---------------------------------------------------------------------------
(* loop *)

\* handleRoot: the balance text put into the page that is sent
handleRoot(cnt) == StringDEC(cnt)

\* server.handleClient() called once more between readWriteCard and the branch
handleClient_MidTap ==
    /\ pc \in {"loop", "decide"}
    /\ \E request \in BOOLEAN :
          page' = IF request THEN handleRoot(count) ELSE <<>>
    /\ pc' = IF pc = "loop" THEN "poll" ELSE pc
    /\ UNCHANGED <<count, buffer, status, cards, cryptoOn, tap, scenario,
                   faults>>

\* server.handleClient(): serve a pending request with handleRoot, if any;
\* page is the body sent by this iteration of loop (empty: no request)
handleClient ==
    /\ pc = "loop"
    /\ \E request \in BOOLEAN :
          page' = IF request THEN handleRoot(count) ELSE <<>>
    /\ pc' = "poll"
    /\ UNCHANGED <<count, buffer, status, cards, cryptoOn, tap, scenario,
                   faults>>

\* PICC_IsNewCardPresent() or PICC_ReadCardSerial() fails: loop returns
pollNoCard ==
    /\ pc = "poll"
    /\ pc' = "loop"
    /\ UNCHANGED <<count, buffer, status, cards, cryptoOn, page, tap, scenario,
                   faults>>

\* a card is selected: cardInteraction starts and builds the uid string
cardDetected(c) ==
    /\ pc = "poll"
    /\ pc' = "authenticate"
    /\ tap' = [NoTap EXCEPT !.card = c, !.uid = uidString(uidByte(c)),
                            !.count0 = count, !.block0 = cards[c]]
    /\ UNCHANGED <<count, buffer, status, cards, cryptoOn, page, scenario,
                   faults>>

---------------------------------------------------------------------------
(* readWriteCard *)

\* PCD_Authenticate without the return on failure
Authenticate_NoReturn ==
    /\ pc = "authenticate"
    /\ \E res \in StatusCodes :
          /\ status' = res
          /\ faults' = IF res = "STATUS_OK" THEN faults ELSE faults + 1
          /\ cryptoOn' = IF res = "STATUS_OK" THEN TRUE ELSE cryptoOn
          /\ pc' = "write"
          /\ tap' = [tap EXCEPT !.steps = Append(@, "authenticate"),
                                !.failed = IF res = "STATUS_OK" THEN @
                                           ELSE "authenticate"]
    /\ UNCHANGED <<count, buffer, cards, page, scenario>>

\* PCD_Authenticate followed by an endless wait when it fails
Authenticate_Hang ==
    /\ pc = "authenticate"
    /\ \E res \in StatusCodes :
          /\ status' = res
          /\ faults' = IF res = "STATUS_OK" THEN faults ELSE faults + 1
          /\ cryptoOn' = IF res = "STATUS_OK" THEN TRUE ELSE cryptoOn
          /\ pc' = IF res = "STATUS_OK" THEN "write" ELSE "hang"
          /\ tap' = [tap EXCEPT !.steps = Append(@, "authenticate"),
                                !.failed = IF res = "STATUS_OK" THEN @
                                           ELSE "authenticate"]
    /\ UNCHANGED <<count, buffer, cards, page, scenario>>

\* PCD_Authenticate and the return on failure
Authenticate ==
    /\ pc = "authenticate"
    /\ \E res \in StatusCodes :
          /\ status' = res
          /\ faults' = IF res = "STATUS_OK" THEN faults ELSE faults + 1
          /\ cryptoOn' = IF res = "STATUS_OK" THEN TRUE ELSE cryptoOn
          /\ pc' = IF res = "STATUS_OK" THEN "write" ELSE "decide"
          /\ tap' = [tap EXCEPT !.steps = Append(@, "authenticate"),
                                !.failed = IF res = "STATUS_OK" THEN @
                                           ELSE "authenticate"]
    /\ UNCHANGED <<count, buffer, cards, page, scenario>>

WriteGuard_Always(cnt) == TRUE

\* whether the write of the balance block is attempted
WriteGuard(cnt) == cnt >= 0

\* if (count >= 0) { memcpy; MIFARE_Write } and the return on failure
Write ==
    /\ pc = "write"
    /\ IF WriteGuard(count)
       THEN \E res \in StatusCodes, sticks \in WriteSticks :
               LET buf == encodeBalance(buffer, count)
                   landed == IF sticks THEN buf
                             ELSE encodeBalance(buf, CorruptBalance)
               IN  /\ res = "STATUS_ERROR" => sticks
                   /\ buffer' = buf
                   /\ status' = res
                   /\ faults' = IF res = "STATUS_OK" /\ sticks THEN faults
                                ELSE faults + 1
                   /\ cards' = IF res = "STATUS_OK"
                               THEN [cards EXCEPT ![tap.card] = landed]
                               ELSE cards
                   /\ tap' = [tap EXCEPT
                                !.steps = Append(@, "write"),
                                !.written = IF res = "STATUS_OK"
                                            THEN <<count>> ELSE @,
                                !.failed = IF res = "STATUS_OK" THEN @
                                           ELSE "write"]
       ELSE UNCHANGED <<buffer, status, cards, tap, faults>>
    /\ pc' = IF status' = "STATUS_OK" THEN "read" ELSE "decide"
    /\ UNCHANGED <<count, cryptoOn, page, scenario>>

\* MIFARE_Read, the return on failure, memcpy into count, halt of the session
Read ==
    /\ pc = "read"
    /\ \E res \in StatusCodes :
          /\ status' = res
          /\ faults' = IF res = "STATUS_OK" THEN faults ELSE faults + 1
          /\ IF res = "STATUS_OK"
             THEN /\ buffer' = cards[tap.card]
                  /\ count' = decodeBalance(buffer')
                  /\ cryptoOn' = FALSE
                  /\ tap' = [tap EXCEPT !.steps = Append(@, "read") \o <<"halt">>,
                                        !.readback = <<count'>>,
                                        !.halts = @ + 1]
             ELSE /\ tap' = [tap EXCEPT !.steps = Append(@, "read"),
                                        !.failed = "read"]
                  /\ UNCHANGED <<buffer, count, cryptoOn>>
    /\ pc' = "decide"
    /\ UNCHANGED <<cards, page, scenario>>

---------------------------------------------------------------------------
(* cardInteraction after readWriteCard *)

cardInteractionOK_Twice(cnt) == cnt - ENTRY_COST - ENTRY_COST

cardInteractionOK_OffByOne(cnt) == cnt - ENTRY_COST - 1

\* cardInteractionOK: count = count - ENTRY_COST (called with count > 0 only,
\* so the subtraction cannot overflow)
cardInteractionOK(cnt) == cnt - ENTRY_COST

\* a tap that keeps the scenario "only failure-free taps of the authorized
\* card, every write stored as sent" going
CleanTap ==
    /\ tap.uid = myUID
    /\ tap.failed = "none"
    /\ tap.written # <<>> => tap.readback = tap.written

\* the branch on uid and count, and the end of the tap
Decide ==
    /\ pc = "decide"
    /\ LET branch == cardInteractionBranch(tap.uid, count)
       IN  /\ count' = IF branch = "Authorized"
                       THEN cardInteractionOK(count) ELSE count
           /\ tap' = [tap EXCEPT !.outcome = branch, !.balance = count]
    /\ scenario' = IF scenario >= 0 /\ CleanTap
                   THEN (IF scenario < MaxScenario THEN scenario + 1
                         ELSE scenario)
                   ELSE -1
    /\ pc' = "loop"
    /\ UNCHANGED <<buffer, status, cards, cryptoOn, page, faults>>

Next ==
    \/ handleClient
    \/ pollNoCard
    \/ \E c \in Cards : cardDetected(c)
    \/ Authenticate
    \/ Write
    \/ Read
    \/ Decide

Spec == Init /\ [][Next]_vars

\* loop and cardInteraction are straight-line code: once a card is selected,
\* each driver call returns and the next statement runs
SpecFair ==
    /\ Spec
    /\ WF_vars(Authenticate)
    /\ WF_vars(Write)
    /\ WF_vars(Read)
    /\ WF_vars(Decide)

---------------------------------------------------------------------------
(* The balance record on its own: memcpy of an int into the buffer and back *)

INT_MAX == 2147483647

INT_MIN == -INT_MAX - 1

\* balances around zero, around the byte boundaries and at both ends of int
CodecBalances ==
    UNION { {k, -k, INT_MAX - k, INT_MIN + k,
             256 * k - 1, 255 - 256 * k,
             65536 * k - 1, 65535 - 65536 * k,
             16777216 * k - 1, 16777215 - 16777216 * k} : k \in 0..CodecSpan }

\* paddings the buffer may hold when the balance is copied in
CodecPaddings == {0, 238}

CodecInit ==
    /\ count \in CodecBalances
    /\ \E p \in CodecPaddings : buffer = [i \in 1..BlockSize |-> p]
    /\ status = "STATUS_OK"
    /\ cards = [c \in Cards |-> InitBlock(c)]
    /\ cryptoOn = FALSE
    /\ page = <<>>
    /\ pc = "encode"
    /\ tap = [NoTap EXCEPT !.count0 = count]
    /\ scenario = 0
    /\ faults = 0

\* memcpy(buffer, &count, sizeof(count)); count is then cleared so that the
\* decoded value comes from the buffer alone
codecEncode ==
    /\ pc = "encode"
    /\ buffer' = encodeBalance(buffer, count)
    /\ count' = 0
    /\ pc' = "decode"
    /\ UNCHANGED <<status, cards, cryptoOn, page, tap, scenario, faults>>

\* memcpy(&count, buffer, sizeof(count))
codecDecode ==
    /\ pc = "decode"
    /\ count' = decodeBalance(buffer)
    /\ pc' = "decoded"
    /\ UNCHANGED <<buffer, status, cards, cryptoOn, page, tap, scenario, faults>>

CodecNext == codecEncode \/ codecDecode

SpecCodec == CodecInit /\ [][CodecNext]_vars

---------------------------------------------------------------------------
(* Properties *)

\* the system is back in loop after a tap; tap records that tap
TapDone == pc \in {"loop", "poll"} /\ tap.outcome # "none"

\* no Card Link call of the tap failed and the card stored what was written
FaultFree ==
    /\ tap.failed = "none"
    /\ tap.written # <<>> => tap.readback = tap.written

\* the balance held by the balance block of card c
cardBalance(c) == decodeBalance(cards[c])

\* the reference decision function: unknown identifier first, then balance
decide(id, bal) ==
    IF id # myUID THEN "DeniedUnknownIdentifier"
    ELSE IF bal <= 0 THEN "DeniedInsufficientBalance"
    ELSE "Authorized"

\* C1: after an Authorized tap with pre-tap balance B (in memory or on the
\* card), the balance block of the card holds B - ENTRY_COST (stated for
\* the taps in which every Card Link call worked).
C1_CardHoldsDeducted ==
    (TapDone /\ FaultFree /\ tap.outcome = "Authorized") =>
        \/ cardBalance(tap.card) = tap.count0 - ENTRY_COST
        \/ cardBalance(tap.card) = decodeBalance(tap.block0) - ENTRY_COST

\* C2: every tap ends after exactly one halt of the card session, and with
\* the session no longer authenticated.
C2_ExactlyOneHalt ==
    TapDone => (tap.halts = 1 /\ ~cryptoOn)

\* C3: a tap in which authenticate, write or read failed is not reported as
\* Authorized, DeniedInsufficientBalance or DeniedUnknownIdentifier, and
\* deducts nothing.
C3_FailureIsCommunicationFailure ==
    (TapDone /\ tap.failed # "none") =>
        /\ tap.outcome \notin {"Authorized", "DeniedInsufficientBalance",
                               "DeniedUnknownIdentifier"}
        /\ count = tap.count0

C5_UnknownCardUntouched ==
    (TapDone /\ tap.uid # myUID) => cards[tap.card] = tap.block0

\* C6: a tap whose MIFARE_Write fails leaves the card and the in-memory
\* balance as they were before the tap.
C6_FailedWriteChangesNothing ==
    (TapDone /\ tap.failed = "write") =>
        /\ cards[tap.card] = tap.block0
        /\ count = tap.count0

\* C7: when the value read back differs from the value written, the tap is
\* not Authorized and the value read back is not the balance decided on.
C7_MismatchNotAdopted ==
    (TapDone /\ tap.written # <<>> /\ tap.readback # <<>>
             /\ tap.readback # tap.written) =>
        /\ tap.outcome # "Authorized"
        /\ tap.balance # tap.readback[1]

\* C8: after a tap without Card Link failure, the in-memory balance equals
\* the balance stored on the card that was tapped.
C8_MemoryMatchesCard ==
    (TapDone /\ FaultFree) => count = cardBalance(tap.card)

\* C9: the outcome of a tap is the decision for the balance that the card
\* held when the tap began (stated for the taps in which every Card Link
\* call worked).
C9_DecidesOnCardBalance ==
    (TapDone /\ FaultFree) => tap.outcome = decide(tap.uid, decodeBalance(tap.block0))

\* number of taps the initial balance pays for
PaidTaps == FIRST_BALANCE \div ENTRY_COST

\* C10: after k failure-free taps of the authorized card from the initial
\* state, tap k was Authorized and the balance is FIRST_BALANCE - k*ENTRY_COST
\* for k <= 10; from tap 11 on the tap is DeniedInsufficientBalance and the
\* balance stays 0.
C10_Scenario ==
    (TapDone /\ scenario >= 1) =>
        IF scenario <= PaidTaps
        THEN /\ tap.outcome = "Authorized"
             /\ count = FIRST_BALANCE - scenario * ENTRY_COST
        ELSE /\ tap.outcome = "DeniedInsufficientBalance"
             /\ count = 0

\* C10 witness: the eleventh failure-free tap has been denied.
C10_Witness ==
    /\ TapDone
    /\ scenario = PaidTaps + 1
    /\ tap.outcome = "DeniedInsufficientBalance"
    /\ count = 0

\* C11: a tap changes the in-memory balance by -ENTRY_COST when its outcome
\* is Authorized and by 0 otherwise (so that FIRST_BALANCE minus the balance
\* is ENTRY_COST times the number of Authorized taps).
C11_DeductOncePerAuthorized ==
    TapDone =>
        count = tap.count0 - (IF tap.outcome = "Authorized" THEN ENTRY_COST
                              ELSE 0)

\* C12: every MIFARE_Write of the balance block, acknowledged or not, sends
\* a block whose balance is not negative.
C12_NoNegativeWrite ==
    [][(pc = "write" /\ tap'.steps # tap.steps) =>
          decodeBalance(buffer') >= 0]_vars

\* C12 witness: the in-memory balance was negative at the write step and
\* the tap went on to the read without a write.
C12_Witness ==
    /\ pc = "read"
    /\ count < 0
    /\ tap.steps = <<"authenticate">>
    /\ tap.written = <<>>

\* the identifier bytes of the card whose UID is configured as myUID
authorizedBytes == uidByte(1)

\* C13: a tapped card is treated as the authorized card exactly when its
\* identifier bytes equal the authorized identifier bytes (stated for the
\* taps in which every Card Link call worked).
C13_ExactByteEquality ==
    (TapDone /\ FaultFree) =>
        (tap.outcome # "DeniedUnknownIdentifier"
            <=> uidByte(tap.card) = authorizedBytes)

\* C14: every detected tap eventually ends back in loop with an outcome
\* presented, whatever step fails, and the outcome of a tap is presented once
\* (it is only replaced when the next tap starts).
C14_TapFinishes ==
    /\ (pc = "authenticate") ~> (pc = "loop" /\ tap.outcome # "none")
    /\ [][(tap.outcome # "none" /\ tap'.outcome # tap.outcome) =>
            (pc = "poll" /\ tap'.outcome = "none")]_vars

\* C14 witness: a tap whose read failed has ended back in loop.
C14_Witness ==
    /\ pc = "loop"
    /\ tap.failed = "read"
    /\ tap.outcome # "none"

\* C15: encoding a balance into the first 4 bytes of the buffer and decoding
\* the first 4 bytes of that buffer gives the balance back.
C15_RoundTrip ==
    pc = "decoded" => count = tap.count0

\* C15 witness: the most negative int has gone through the round trip.
C15_Witness ==
    /\ pc = "decoded"
    /\ tap.count0 = INT_MIN
    /\ SubSeq(buffer, 1, IntSize) = <<0, 0, 0, 128>>

\* s is an initial part of t
IsPrefix(s, t) == Len(s) <= Len(t) /\ s = SubSeq(t, 1, Len(s))

\* C16: the Card Link steps of a tap are an initial part of authenticate,
\* write, read, halt (the write left out when it is not attempted): each at
\* most once, nothing after a failed authenticate, no read after a failed
\* write, no halt after a failed read.
C16_StepOrder ==
    /\ \/ IsPrefix(tap.steps, <<"authenticate", "write", "read", "halt">>)
       \/ IsPrefix(tap.steps, <<"authenticate", "read", "halt">>)
    /\ tap.failed = "authenticate" => tap.steps = <<"authenticate">>
    /\ tap.failed = "write" => tap.steps = <<"authenticate", "write">>
    /\ tap.failed = "read" =>
          tap.steps \in {<<"authenticate", "write", "read">>,
                         <<"authenticate", "read">>}

\* C16 witness: a tap whose write failed has ended without a read.
C16_Witness ==
    /\ TapDone
    /\ tap.failed = "write"
    /\ tap.steps = <<"authenticate", "write">>

Padding(block) == SubSeq(block, IntSize + 1, BlockSize)

\* C18: the padding of a block that a write stores on a card is all zero or
\* the padding that card held before the write.
C18_PaddingZeroOrPreserved ==
    [][(pc = "write" /\ cards' # cards) =>
          \/ Padding(cards'[tap.card]) = [i \in 1..(BlockSize - IntSize) |-> 0]
          \/ Padding(cards'[tap.card]) = Padding(cards[tap.card])]_vars

\* the balances the claim allows: multiples of ENTRY_COST in 0..FIRST_BALANCE
BalanceSteps == {ENTRY_COST * k : k \in 0..PaidTaps}

\* the read about to be taken returns the value that the tap wrote
ReadBackFaithful ==
    (pc = "read" /\ tap.written # <<>>) =>
        cardBalance(tap.card) = tap.written[1]

\* C19: the in-memory balance starts as a multiple of ENTRY_COST in
\* 0..FIRST_BALANCE, and no step taken from such a balance with a faithful
\* read-back leaves that set or increases the balance; so the balance is
\* always in the set, never negative and never increasing, as long as every
\* read-back returns the value just written.
C19_BalanceSteps ==
    /\ count \in BalanceSteps
    /\ [][(count \in BalanceSteps /\ ReadBackFaithful) =>
            (count' \in BalanceSteps /\ count' <= count)]_vars

\* C19 witness: the balance has reached 0 by an Authorized tap in a run with
\* a Card Link failure.
C19_Witness ==
    /\ TapDone
    /\ count = 0
    /\ tap.outcome = "Authorized"
    /\ faults > 0

\* the in-memory balance that the last completed tap left
lastTapBalance ==
    IF tap.outcome = "none" THEN FIRST_BALANCE
    ELSE IF tap.outcome = "Authorized" THEN tap.balance - ENTRY_COST
    ELSE tap.balance

\* C20: a request is served only by the step at the top of loop; that step
\* changes neither the in-memory balance nor a card, and the page it sends
\* shows the balance left by the last completed tap.
C20_StatusPageBetweenTaps ==
    [][(page' # page \/ pc = "loop") =>
          /\ pc = "loop"
          /\ pc' = "poll"
          /\ UNCHANGED <<count, cards, buffer, cryptoOn>>
          /\ page' \in {<<>>, StringDEC(lastTapBalance)}]_vars

\* C20 witness: after an Authorized tap the page shows the deducted balance.
C20_Witness ==
    /\ pc = "poll"
    /\ tap.outcome = "Authorized"
    /\ page # <<>>
    /\ page = StringDEC(tap.balance - ENTRY_COST)

====
